---- MODULE Spec2Model ----
(***************************************************************************)
(* A model of the MLX90642 register-level driver (src/MLX90642.cpp).       *)
(*                                                                         *)
(* The driver talks to the sensor through the Arduino Wire transport.      *)
(* Every Wire call a driver function makes is appended, with the value     *)
(* the transport returned for it, to a log; the log of the last driver     *)
(* call is the variable `log`.  The transport's answers are the inputs of  *)
(* the actions.  The sensor's own memory (configuration word, progress     *)
(* counter) is the environment: it changes by the write transactions it    *)
(* acknowledges and by the sensor's own frame acquisition.                 *)
(***************************************************************************)
EXTENDS Integers, Sequences, FiniteSets, TLC

VARIABLES
    lastProgress,  \* static uint16_t lastProgress of isNewDataAvailable
    eeprom,        \* the sensor's configuration word at 0x11F0
    counter,       \* the sensor's progress counter at 0x3C10
    faithful,      \* TRUE: the transport never fails and answers from the sensor's memory
    call,          \* the last step: a driver call with its argument, or a step of the sensor
    ret,           \* the value the last driver call returned
    log,           \* the Wire calls the last driver call made, in order
    observing,     \* TRUE: the first MaxCalls polls are recorded in hist
    hist,          \* <<reading, result>> of the first polls, in call order
    wraps,         \* frame boundaries of the sensor since the last poll (saturating)
    polledWraps,   \* the value of wraps seen by the last poll
    tally,         \* frames the sensor began and true results of the polls, from the start
    T_o,           \* the caller's float array of NUM_PIXELS temperatures, in 1/1000 degree
    frameBuffer,   \* char frameBuffer[FRAME_BUFFER_SIZE]: highest offset stored to, bytes sent,
                   \* values rendered by the last printFrame
    polled,        \* per MLX90642 object constructed: has isNewDataAvailable been called on it
    pc,            \* the sketch's position in setup() and loop(); "api" when no sketch runs
    broken         \* TRUE: the transport fails every transaction from now on

vars == <<lastProgress, eeprom, counter, faithful, call, ret, log,
          observing, hist, wraps, polledWraps, tally, T_o, frameBuffer,
          polled, pc, broken>>

(***************************************************************************)
(* Program constants.                                                      *)
(***************************************************************************)
MLX90642_ADDR == 102      \* 0x66
PROGRESS_REG == 15376     \* 0x3C10
CONFIG_REG == 4592        \* 0x11F0
FAIL_WORD == 65535        \* 0xFFFF
EE_OPCODE == 58           \* 0x3A
EE_SUBOPCODE == 46        \* 0x2E
EE_WRITE_DELAY == 10
EE_SETTLE_DELAY == 20
RATE_MIN == 2
RATE_MAX == 5
NUM_PIXELS == 768
FRAME_ADDR == 13356       \* 0x342C
TA_REG == 14892           \* 0x3A2C
FRAME_BUFFER_SIZE == 6000
SAFETY_MARGIN == 10
REFRESH_RATE == 4

(***************************************************************************)
(* Bounds of the model.                                                    *)
(***************************************************************************)
MaxStatus == 1     \* endTransmission returns 0 (success) .. MaxStatus
MaxRate == 7       \* setRefreshRate is tried with 0 .. MaxRate and with 255
MaxCalls == 5      \* polls recorded in hist
MaxCounter == 4    \* the faithful sensor's progress counter runs over 0 .. MaxCounter
MaxWraps == 2      \* wraps saturates here
MaxFrames == 3     \* the sensor begins at most this many frames in a run
MaxInstances == 2  \* MLX90642 objects constructed in one process

(***************************************************************************)
(* Fixed-width integer arithmetic of the C++ code.                         *)
(***************************************************************************)
RECURSIVE BitAnd(_, _, _)
BitAnd(a, b, n) ==
    IF n = 0 \/ a = 0 \/ b = 0 THEN 0
    ELSE (IF a % 2 = 1 /\ b % 2 = 1 THEN 1 ELSE 0)
         + 2 * BitAnd(a \div 2, b \div 2, n - 1)

RECURSIVE BitOr(_, _, _)
BitOr(a, b, n) ==
    IF n = 0 \/ (a = 0 /\ b = 0) THEN 0
    ELSE (IF a % 2 = 1 \/ b % 2 = 1 THEN 1 ELSE 0)
         + 2 * BitOr(a \div 2, b \div 2, n - 1)

RECURSIVE BitNot(_, _)
BitNot(a, n) ==
    IF n = 0 THEN 0
    ELSE (IF a % 2 = 1 THEN 0 ELSE 1) + 2 * BitNot(a \div 2, n - 1)

U8(x) == x % 256
U16(x) == x % 65536

(***************************************************************************)
(* Wire calls, as they appear in the log.                                  *)
(***************************************************************************)
WBegin(addr) == [f |-> "beginTransmission", a |-> addr, r |-> 0]
WWrite(b) == [f |-> "write", a |-> b, r |-> 0]
WEnd(stop, status) == [f |-> "endTransmission", a |-> stop, r |-> status]
WRequest(addr, n) == [f |-> "requestFrom", a |-> addr, r |-> n]
WAvail(n) == [f |-> "available", a |-> 0, r |-> n]
WRead(b) == [f |-> "read", a |-> 0, r |-> b]
Delay(ms) == [f |-> "delay", a |-> ms, r |-> 0]

(***************************************************************************)
(* The transport's answer to one register read: the status of the address  *)
(* phase, the number of bytes available after the request, and the two     *)
(* bytes.  Answers that differ only in parts the driver never looks at     *)
(* are represented once.                                                   *)
(***************************************************************************)
OkResp(w) == [status |-> 0, avail |-> 2, hi |-> w \div 256, lo |-> w % 256]
NackResp(s) == [status |-> s, avail |-> 0, hi |-> 0, lo |-> 0]
ShortResp(n) == [status |-> 0, avail |-> n, hi |-> 0, lo |-> 0]

MockResps(words) ==
    {OkResp(w) : w \in words}
    \cup {NackResp(s) : s \in 1..MaxStatus}
    \cup {ShortResp(n) : n \in 0..1}

ConfigWords == {0, 4, 5, 43979, 65530, 65535}
ProgressWords == {0, 5, 10, 40, 50, 90}

(***************************************************************************)
(* Register Access Layer.  Each operator gives the value the function      *)
(* returns and the Wire calls it makes, for the transport answers given.   *)
(***************************************************************************)
\* mutant of readAddr_unsigned: the two response bytes are packed low byte first
readAddr_unsigned_swapped(readByte, resp) ==
    LET addrPhase == << WBegin(MLX90642_ADDR),
                        WWrite(U8(readByte \div 256)),
                        WWrite(BitAnd(readByte, 255, 16)),
                        WEnd(0, resp.status) >>
        request == addrPhase \o << WRequest(MLX90642_ADDR, 2), WAvail(resp.avail) >>
    IN  IF resp.status # 0 THEN [ret |-> FAIL_WORD, ops |-> addrPhase]
        ELSE IF resp.avail < 2 THEN [ret |-> FAIL_WORD, ops |-> request]
        ELSE [ret |-> BitOr(U16(resp.lo * 256), resp.hi, 16),
              ops |-> request \o << WRead(resp.hi), WRead(resp.lo) >>]

\* mutant of readAddr_unsigned: the number of available bytes is not tested
readAddr_unsigned_nocheck(readByte, resp) ==
    LET addrPhase == << WBegin(MLX90642_ADDR),
                        WWrite(U8(readByte \div 256)),
                        WWrite(BitAnd(readByte, 255, 16)),
                        WEnd(0, resp.status) >>
        request == addrPhase \o << WRequest(MLX90642_ADDR, 2), WAvail(resp.avail) >>
    IN  IF resp.status # 0 THEN [ret |-> FAIL_WORD, ops |-> addrPhase]
        ELSE [ret |-> BitOr(U16(resp.hi * 256), resp.lo, 16),
              ops |-> request \o << WRead(resp.hi), WRead(resp.lo) >>]

readAddr_unsigned(readByte, resp) ==
    LET addrPhase == << WBegin(MLX90642_ADDR),
                        WWrite(U8(readByte \div 256)),
                        WWrite(BitAnd(readByte, 255, 16)),
                        WEnd(0, resp.status) >>
        request == addrPhase \o << WRequest(MLX90642_ADDR, 2), WAvail(resp.avail) >>
    IN  IF resp.status # 0 THEN [ret |-> FAIL_WORD, ops |-> addrPhase]
        ELSE IF resp.avail < 2 THEN [ret |-> FAIL_WORD, ops |-> request]
        ELSE [ret |-> BitOr(U16(resp.hi * 256), resp.lo, 16),
              ops |-> request \o << WRead(resp.hi), WRead(resp.lo) >>]

\* mutant of writeEEPROM: the value is queued low byte first
writeEEPROM_lsbfirst(eepromAddr, newValue, status) ==
    LET txn == << WBegin(MLX90642_ADDR),
                  WWrite(EE_OPCODE),
                  WWrite(EE_SUBOPCODE),
                  WWrite(U8(eepromAddr \div 256)),
                  WWrite(BitAnd(eepromAddr, 255, 16)),
                  WWrite(BitAnd(newValue, 255, 16)),
                  WWrite(U8(newValue \div 256)),
                  WEnd(1, status) >>
    IN  IF status # 0 THEN [ret |-> FALSE, ops |-> txn]
        ELSE [ret |-> TRUE, ops |-> txn \o << Delay(EE_WRITE_DELAY) >>]

writeEEPROM(eepromAddr, newValue, status) ==
    LET txn == << WBegin(MLX90642_ADDR),
                  WWrite(EE_OPCODE),
                  WWrite(EE_SUBOPCODE),
                  WWrite(U8(eepromAddr \div 256)),
                  WWrite(BitAnd(eepromAddr, 255, 16)),
                  WWrite(U8(newValue \div 256)),
                  WWrite(BitAnd(newValue, 255, 16)),
                  WEnd(1, status) >>
    IN  IF status # 0 THEN [ret |-> FALSE, ops |-> txn]
        ELSE [ret |-> TRUE, ops |-> txn \o << Delay(EE_WRITE_DELAY) >>]

\* the conversion of a 16-bit pattern to int16_t
S16(x) == ((x + 32768) % 65536) - 32768

\* mutant of readAddr_signed: the failure value is returned unconverted
readAddr_signed_rawfail(readByte, resp) ==
    LET rd == readAddr_unsigned(readByte, resp)
    IN  [ret |-> IF resp.status # 0 \/ resp.avail < 2 THEN FAIL_WORD ELSE S16(rd.ret),
         ops |-> rd.ops]

readAddr_signed(readByte, resp) ==
    LET addrPhase == << WBegin(MLX90642_ADDR),
                        WWrite(U8(readByte \div 256)),
                        WWrite(BitAnd(readByte, 255, 16)),
                        WEnd(0, resp.status) >>
        request == addrPhase \o << WRequest(MLX90642_ADDR, 2), WAvail(resp.avail) >>
    IN  IF resp.status # 0 THEN [ret |-> S16(FAIL_WORD), ops |-> addrPhase]
        ELSE IF resp.avail < 2 THEN [ret |-> S16(FAIL_WORD), ops |-> request]
        ELSE [ret |-> S16(BitOr(resp.hi * 256, resp.lo, 16)),
              ops |-> request \o << WRead(resp.hi), WRead(resp.lo) >>]

(***************************************************************************)
(* Configuration Control.                                                  *)
(***************************************************************************)
\* mutants of ValidRate: one of the two range tests is missing
ValidRate_noLower(rate_hz) == ~(rate_hz > RATE_MAX)

ValidRate_noUpper(rate_hz) == ~(rate_hz < RATE_MIN)

ValidRate(rate_hz) == ~(rate_hz < RATE_MIN \/ rate_hz > RATE_MAX)

\* ctrl &= ~0b00000111; ctrl |= (uint16_t)rate_hz;
\* The mask is an int; its sign bit meets a zero bit of the promoted ctrl, so the
\* 31 value bits are computed and the result is stored back as uint16_t.
RateMask == BitNot(7, 31)

\* mutant of SetRateBits: the old rate bits are not cleared before the OR
SetRateBits_noClear(ctrl, rate_hz) == BitOr(ctrl, rate_hz, 16)

SetRateBits(ctrl, rate_hz) ==
    LET cleared == U16(BitAnd(ctrl, RateMask, 31))
    IN  BitOr(cleared, rate_hz, 16)

RateVerified(ctrl2, rate_hz) ==
    IF ctrl2 = FAIL_WORD THEN FALSE ELSE BitAnd(ctrl2, 7, 16) = rate_hz

\* mutant of setRefreshRate_write: the failed first read is not tested, the write goes out blind
setRefreshRate_write_blind(rate_hz, r1, wstatus) ==
    IF ~ValidRate(rate_hz) THEN [done |-> TRUE, ret |-> FALSE, ops |-> << >>]
    ELSE LET rd == readAddr_unsigned(CONFIG_REG, r1)
             wr == writeEEPROM(CONFIG_REG, SetRateBits(rd.ret, rate_hz), wstatus)
         IN  IF ~wr.ret THEN [done |-> TRUE, ret |-> FALSE, ops |-> rd.ops \o wr.ops]
             ELSE [done |-> FALSE, ret |-> FALSE, ops |-> rd.ops \o wr.ops]

\* mutant of setRefreshRate_write: no write when the rate bits already match
setRefreshRate_write_skip(rate_hz, r1, wstatus) ==
    IF ~ValidRate(rate_hz) THEN [done |-> TRUE, ret |-> FALSE, ops |-> << >>]
    ELSE LET rd == readAddr_unsigned(CONFIG_REG, r1)
         IN  IF rd.ret = FAIL_WORD THEN [done |-> TRUE, ret |-> FALSE, ops |-> rd.ops]
             ELSE IF BitAnd(rd.ret, 7, 16) = rate_hz
                  THEN [done |-> FALSE, ret |-> FALSE, ops |-> rd.ops]
             ELSE LET wr == writeEEPROM(CONFIG_REG, SetRateBits(rd.ret, rate_hz), wstatus)
                  IN  IF ~wr.ret THEN [done |-> TRUE, ret |-> FALSE, ops |-> rd.ops \o wr.ops]
                      ELSE [done |-> FALSE, ret |-> FALSE, ops |-> rd.ops \o wr.ops]

\* setRefreshRate up to and including its call of writeEEPROM
setRefreshRate_write(rate_hz, r1, wstatus) ==
    IF ~ValidRate(rate_hz) THEN [done |-> TRUE, ret |-> FALSE, ops |-> << >>]
    ELSE LET rd == readAddr_unsigned(CONFIG_REG, r1)
         IN  IF rd.ret = FAIL_WORD THEN [done |-> TRUE, ret |-> FALSE, ops |-> rd.ops]
             ELSE LET wr == writeEEPROM(CONFIG_REG, SetRateBits(rd.ret, rate_hz), wstatus)
                  IN  IF ~wr.ret THEN [done |-> TRUE, ret |-> FALSE, ops |-> rd.ops \o wr.ops]
                      ELSE [done |-> FALSE, ret |-> FALSE, ops |-> rd.ops \o wr.ops]

\* mutant of setRefreshRate_run: a verification read that fails is tried once more
setRefreshRate_run_retry(rate_hz, r1, wstatus, r2) ==
    LET part == setRefreshRate_write(rate_hz, r1, wstatus)
    IN  IF part.done THEN [ret |-> part.ret, ops |-> part.ops]
        ELSE LET rd2 == readAddr_unsigned(CONFIG_REG, r2)
                 again == IF rd2.ret = FAIL_WORD THEN rd2.ops ELSE << >>
             IN  [ret |-> RateVerified(rd2.ret, rate_hz),
                  ops |-> part.ops \o << Delay(EE_SETTLE_DELAY) >> \o rd2.ops \o again]

\* mutant of setRefreshRate_run: the verification read follows the write at once
setRefreshRate_run_nosettle(rate_hz, r1, wstatus, r2) ==
    LET part == setRefreshRate_write(rate_hz, r1, wstatus)
    IN  IF part.done THEN [ret |-> part.ret, ops |-> part.ops]
        ELSE LET rd2 == readAddr_unsigned(CONFIG_REG, r2)
             IN  [ret |-> RateVerified(rd2.ret, rate_hz),
                  ops |-> part.ops \o rd2.ops]

\* the whole of setRefreshRate
setRefreshRate_run(rate_hz, r1, wstatus, r2) ==
    LET part == setRefreshRate_write(rate_hz, r1, wstatus)
    IN  IF part.done THEN [ret |-> part.ret, ops |-> part.ops]
        ELSE LET rd2 == readAddr_unsigned(CONFIG_REG, r2)
             IN  [ret |-> RateVerified(rd2.ret, rate_hz),
                  ops |-> part.ops \o << Delay(EE_SETTLE_DELAY) >> \o rd2.ops]

(***************************************************************************)
(* Frame Synchronization.                                                  *)
(***************************************************************************)
\* mutants of NewFrame: the comparison is not the strict "less than"
NewFrame_le(progress, last) == progress <= last

NewFrame_ne(progress, last) == progress # last

NewFrame_gt(progress, last) == progress > last

\* mutant of NewFrame: a baseline left by a failed read is not compared
NewFrame_skipfail(progress, last) == progress < last /\ last # FAIL_WORD

NewFrame(progress, last) == progress < last

\* mutant of isNewDataAvailable_run: a failed read leaves the stored value alone
isNewDataAvailable_run_keep(last, resp) ==
    LET rd == readAddr_unsigned(PROGRESS_REG, resp)
    IN  [ret |-> NewFrame(rd.ret, last),
         lastProgress |-> IF rd.ret = FAIL_WORD THEN last ELSE rd.ret,
         ops |-> rd.ops]

\* mutant of isNewDataAvailable_run: a failed read is tried once more
isNewDataAvailable_run_reread(last, resp) ==
    LET rd == readAddr_unsigned(PROGRESS_REG, resp)
    IN  [ret |-> NewFrame(rd.ret, last),
         lastProgress |-> rd.ret,
         ops |-> IF rd.ret = FAIL_WORD THEN rd.ops \o rd.ops ELSE rd.ops]

isNewDataAvailable_run(last, resp) ==
    LET rd == readAddr_unsigned(PROGRESS_REG, resp)
    IN  [ret |-> NewFrame(rd.ret, last), lastProgress |-> rd.ret, ops |-> rd.ops]

(***************************************************************************)
(* The bus as the sensor sees it: the log cut into transactions.  A        *)
(* transaction is the bytes queued between beginTransmission and           *)
(* endTransmission, and what followed it before the next one began.        *)
(***************************************************************************)
RECURSIVE IndexOf(_, _, _)
IndexOf(ops, fname, from) ==
    IF from > Len(ops) THEN Len(ops) + 1
    ELSE IF ops[from].f = fname THEN from
    ELSE IndexOf(ops, fname, from + 1)

RECURSIVE SumDelay(_)
SumDelay(ops) ==
    IF ops = << >> THEN 0
    ELSE (IF Head(ops).f = "delay" THEN Head(ops).a ELSE 0) + SumDelay(Tail(ops))

Named(ops, fname) == SelectSeq(ops, LAMBDA e : e.f = fname)

RECURSIVE Txns(_)
Txns(ops) ==
    LET e == IndexOf(ops, "endTransmission", 1)
        nb == IndexOf(ops, "beginTransmission", e + 1)
        head == SubSeq(ops, 1, e)
        rest == SubSeq(ops, e + 1, nb - 1)
        wr == Named(head, "write")
        rd == Named(rest, "read")
    IN  IF e > Len(ops) THEN << >>
        ELSE << [dev |-> head[1].a,
                 begun |-> Len(Named(head, "beginTransmission")),
                 bytes |-> [i \in 1..Len(wr) |-> wr[i].a],
                 stop |-> ops[e].a,
                 status |-> ops[e].r,
                 requests |-> Named(rest, "requestFrom"),
                 reads |-> [i \in 1..Len(rd) |-> rd[i].r],
                 delay |-> SumDelay(rest)] >>
             \o Txns(SubSeq(ops, nb, Len(ops)))

Kind(t) ==
    IF t.stop = 0 /\ Len(t.bytes) = 2 THEN "read"
    ELSE IF t.stop = 1 /\ Len(t.bytes) = 6
            /\ t.bytes[1] = EE_OPCODE /\ t.bytes[2] = EE_SUBOPCODE THEN "write"
    ELSE "other"

TxnAddr(t) ==
    IF Kind(t) = "read" THEN t.bytes[1] * 256 + t.bytes[2]
    ELSE IF Kind(t) = "write" THEN t.bytes[3] * 256 + t.bytes[4]
    ELSE 0

Kinds(ops) == [i \in 1..Len(Txns(ops)) |-> Kind(Txns(ops)[i])]

(***************************************************************************)
(* The sensor.  It stores the data word of every EEPROM write command it   *)
(* acknowledged at the configuration address; nothing else changes its     *)
(* configuration word.                                                     *)
(***************************************************************************)
RECURSIVE StoreAll(_, _)
StoreAll(word, ts) ==
    IF ts = << >> THEN word
    ELSE LET t == Head(ts)
             hit == /\ Kind(t) = "write"
                    /\ t.dev = MLX90642_ADDR
                    /\ t.status = 0
                    /\ TxnAddr(t) = CONFIG_REG
         IN  StoreAll(IF hit THEN t.bytes[5] * 256 + t.bytes[6] ELSE word, Tail(ts))

DeviceStore(word, ops) == StoreAll(word, Txns(ops))

ReadResps(words, actual) ==
    IF faithful THEN {OkResp(actual)} ELSE MockResps(words)

\* the answer set of a read the driver does not make
Unasked == {NackResp(1)}

WriteStatuses == IF faithful THEN {0} ELSE 0..MaxStatus

Rates == 0..MaxRate \cup {255}

(***************************************************************************)
(* Initial states and actions.                                             *)
(***************************************************************************)
InitCommon ==
    /\ lastProgress = 0
    /\ call = [op |-> "none", arg |-> 0]
    /\ ret = FALSE
    /\ log = << >>
    /\ hist = << >>
    /\ wraps = 0
    /\ polledWraps = 0
    /\ tally = [frames |-> 0, trues |-> 0]
    /\ frameBuffer = [top |-> -1, sent |-> 0, values |-> 0]
    /\ polled = << FALSE >>
    /\ pc = "api"
    /\ broken = FALSE

\* float T_o[NUM_PIXELS] is a global of the sketch: it starts as all zeros
ZeroFrame == [i \in 0..(NUM_PIXELS - 1) |-> 0]

setRefreshRate ==
    \E rate_hz \in Rates :
    \E r1 \in ReadResps(ConfigWords, eeprom) :
    \E wstatus \in WriteStatuses :
        LET part == setRefreshRate_write(rate_hz, r1, wstatus)
            mid == DeviceStore(eeprom, part.ops)
        IN  \E r2 \in IF part.done THEN Unasked ELSE ReadResps(ConfigWords, mid) :
                LET run == setRefreshRate_run(rate_hz, r1, wstatus, r2)
                IN  /\ call' = [op |-> "setRefreshRate", arg |-> rate_hz]
                    /\ ret' = run.ret
                    /\ log' = run.ops
                    /\ eeprom' = DeviceStore(eeprom, run.ops)
                    /\ UNCHANGED <<lastProgress, counter, faithful,
                                   observing, hist, wraps, polledWraps, tally, T_o, frameBuffer, polled, pc, broken>>

InitRate ==
    /\ InitCommon
    /\ T_o = ZeroFrame
    /\ eeprom \in ConfigWords
    /\ counter = 0
    /\ faithful = FALSE
    /\ observing = FALSE

NextRate == setRefreshRate

SpecRate == InitRate /\ [][NextRate]_vars

\* the word a read transaction delivered to the driver, as seen on the bus
TxnValue(t) ==
    IF t.status = 0 /\ Len(t.reads) = 2 THEN t.reads[1] * 256 + t.reads[2]
    ELSE FAIL_WORD

isNewDataAvailable ==
    /\ observing => Len(hist) < MaxCalls
    /\ \E self \in 1..Len(polled) :
       \E resp \in ReadResps(ProgressWords, counter) :
        LET run == isNewDataAvailable_run(lastProgress, resp)
        IN  /\ call' = [op |-> "isNewDataAvailable", arg |-> 0,
                        self |-> self, first |-> ~polled[self]]
            /\ polled' = [polled EXCEPT ![self] = TRUE]
            /\ ret' = run.ret
            /\ log' = run.ops
            /\ lastProgress' = run.lastProgress
            /\ eeprom' = DeviceStore(eeprom, run.ops)
            /\ hist' = IF observing
                       THEN Append(hist, <<TxnValue(Txns(run.ops)[1]), run.ret>>)
                       ELSE hist
            /\ polledWraps' = wraps
            /\ wraps' = 0
            /\ tally' = IF faithful /\ run.ret
                        THEN [tally EXCEPT !.trues = @ + 1]
                        ELSE tally
            /\ UNCHANGED <<counter, faithful, observing, T_o, frameBuffer, pc, broken>>

\* the sensor writes more of the current frame: the progress counter increases
sensorAdvance ==
    \E c \in (counter + 1)..MaxCounter :
        /\ counter' = c
        /\ call' = [op |-> "sensor", arg |-> 0]
        /\ UNCHANGED <<lastProgress, eeprom, faithful, ret, log,
                       observing, hist, wraps, polledWraps, tally, T_o, frameBuffer, polled, pc, broken>>

\* the sensor begins a new frame: the progress counter wraps back to a lower value
sensorNewFrame ==
    \E c \in 0..(counter - 1) :
        /\ tally.frames < MaxFrames
        /\ tally' = [tally EXCEPT !.frames = @ + 1]
        /\ counter' = c
        /\ wraps' = IF wraps < MaxWraps THEN wraps + 1 ELSE wraps
        /\ call' = [op |-> "sensor", arg |-> 1]
        /\ UNCHANGED <<lastProgress, eeprom, faithful, ret, log,
                       observing, hist, polledWraps, T_o, frameBuffer, polled, pc, broken>>

\* polling through a transport that may answer anything; the first polls are recorded
InitPoll ==
    /\ InitCommon
    /\ T_o = ZeroFrame
    /\ eeprom \in {4, 43979}
    /\ counter = 0
    /\ faithful = FALSE
    /\ observing = TRUE

NextPoll == isNewDataAvailable

SpecPoll == InitPoll /\ [][NextPoll]_vars

\* polling a sensor that answers every read with its progress counter
InitSensor ==
    /\ InitCommon
    /\ T_o = ZeroFrame
    /\ eeprom = 4
    /\ counter \in 0..MaxCounter
    /\ faithful = TRUE
    /\ observing = FALSE

NextSensor == isNewDataAvailable \/ sensorAdvance \/ sensorNewFrame

SpecSensor == InitSensor /\ [][NextSensor]_vars

(***************************************************************************)
(* The register access layer called directly, on the mock transport.       *)
(***************************************************************************)
ReadAddrs == {0, 255, CONFIG_REG, TA_REG, 65280}

DataWords == {0, 250, 255, 256, 3357, 32767, 32768, 65535}

WriteWords == {0, 250, 43979, 65535}

readAddr_unsigned_call ==
    \E readByte \in ReadAddrs :
    \E resp \in MockResps(DataWords) :
        LET rd == readAddr_unsigned(readByte, resp)
        IN  /\ call' = [op |-> "readAddr_unsigned", arg |-> readByte, resp |-> resp]
            /\ ret' = rd.ret
            /\ log' = rd.ops
            /\ eeprom' = DeviceStore(eeprom, rd.ops)
            /\ UNCHANGED <<lastProgress, counter, faithful, observing, hist,
                           wraps, polledWraps, tally, T_o, frameBuffer, polled, pc, broken>>

readAddr_signed_call ==
    \E readByte \in ReadAddrs :
    \E resp \in MockResps(DataWords) :
        LET rd == readAddr_signed(readByte, resp)
        IN  /\ call' = [op |-> "readAddr_signed", arg |-> readByte, resp |-> resp]
            /\ ret' = rd.ret
            /\ log' = rd.ops
            /\ eeprom' = DeviceStore(eeprom, rd.ops)
            /\ UNCHANGED <<lastProgress, counter, faithful, observing, hist,
                           wraps, polledWraps, tally, T_o, frameBuffer, polled, pc, broken>>

writeEEPROM_call ==
    \E eepromAddr \in ReadAddrs :
    \E newValue \in WriteWords :
    \E status \in 0..MaxStatus :
        LET wr == writeEEPROM(eepromAddr, newValue, status)
        IN  /\ call' = [op |-> "writeEEPROM", arg |-> <<eepromAddr, newValue>>,
                        resp |-> status]
            /\ ret' = wr.ret
            /\ log' = wr.ops
            /\ eeprom' = DeviceStore(eeprom, wr.ops)
            /\ UNCHANGED <<lastProgress, counter, faithful, observing, hist,
                           wraps, polledWraps, tally, T_o, frameBuffer, polled, pc, broken>>

\* mutant of readTa_run: the word is taken as unsigned
readTa_run_unsigned(resp) ==
    LET rd == readAddr_unsigned(TA_REG, resp)
    IN  [ret |-> rd.ret * 10, ops |-> rd.ops]

\* readAddr_signed(0x3A2C) / 100.0f, in 1/1000 degree
readTa_run(resp) ==
    LET rd == readAddr_signed(TA_REG, resp)
    IN  [ret |-> rd.ret * 10, ops |-> rd.ops]

readTa ==
    \E resp \in MockResps(DataWords) :
        LET run == readTa_run(resp)
        IN  /\ call' = [op |-> "readTa", arg |-> 0, resp |-> resp]
            /\ ret' = run.ret
            /\ log' = run.ops
            /\ eeprom' = DeviceStore(eeprom, run.ops)
            /\ UNCHANGED <<lastProgress, counter, faithful, observing, hist,
                           wraps, polledWraps, tally, T_o, frameBuffer, polled, pc, broken>>

InitAccess ==
    /\ InitCommon
    /\ T_o = ZeroFrame
    /\ eeprom = 4
    /\ counter = 0
    /\ faithful = FALSE
    /\ observing = FALSE

NextAccess ==
    readAddr_unsigned_call \/ readAddr_signed_call \/ writeEEPROM_call \/ readTa

SpecAccess == InitAccess /\ [][NextAccess]_vars

(***************************************************************************)
(* Pixel addressing.  The argument is a uint16_t; it is drawn in the       *)
(* initial state and pix_addr is applied to it.                            *)
(***************************************************************************)
\* mutants of pix_addr: one byte per pixel; the index NUM_PIXELS is let through
pix_addr_stride1(pxl) == IF pxl >= NUM_PIXELS THEN 0 ELSE U16(FRAME_ADDR + pxl)

pix_addr_gt(pxl) == IF pxl > NUM_PIXELS THEN 0 ELSE U16(FRAME_ADDR + pxl * 2)

pix_addr(pxl) == IF pxl >= NUM_PIXELS THEN 0 ELSE U16(FRAME_ADDR + pxl * 2)

pix_addr_call ==
    /\ call.op = "none"
    /\ call' = [op |-> "pix_addr", arg |-> call.arg]
    /\ ret' = pix_addr(call.arg)
    /\ log' = << >>
    /\ UNCHANGED <<lastProgress, eeprom, counter, faithful, observing, hist,
                   wraps, polledWraps, tally, T_o, frameBuffer, polled, pc, broken>>

InitPixel ==
    /\ call \in [op : {"none"}, arg : 0..65535]
    /\ lastProgress = 0
    /\ ret = FALSE
    /\ log = << >>
    /\ hist = << >>
    /\ wraps = 0
    /\ polledWraps = 0
    /\ tally = [frames |-> 0, trues |-> 0]
    /\ frameBuffer = [top |-> -1, sent |-> 0, values |-> 0]
    /\ polled = << FALSE >>
    /\ pc = "api"
    /\ broken = FALSE
    /\ T_o = ZeroFrame
    /\ eeprom = 4
    /\ counter = 0
    /\ faithful = FALSE
    /\ observing = FALSE

NextPixel == pix_addr_call

SpecPixel == InitPixel /\ [][NextPixel]_vars

(***************************************************************************)
(* Reading a frame.  The transport's answers to the NUM_PIXELS reads of    *)
(* one readTempC call are a script: the word of pixel i is                 *)
(* start + step * i (mod 2^16), and the reads of the pixels in failAt      *)
(* fail with the answer fail.  The script and the array's contents before  *)
(* the call are drawn in the initial state.                                *)
(***************************************************************************)
Pixels == 0..(NUM_PIXELS - 1)

Answer(script, i) ==
    IF i \in script.failAt THEN script.fail
    ELSE OkResp(U16(script.start + script.step * i))

FailSets == {{0}, {1}, {383}, {766}, {767}, {0, 1}, Pixels}

FailResps == {NackResp(s) : s \in 1..MaxStatus} \cup {ShortResp(n) : n \in 0..1}

Ramps == { <<250, 0>>, <<0, 1>>, <<65486, 65535>>, <<32000, 1>>, <<3357, 40>>, <<32768, 0>> }

FrameScripts ==
    { [start |-> r[1], step |-> r[2], failAt |-> {}, fail |-> NackResp(1)] : r \in Ramps }
    \cup { [start |-> r[1], step |-> r[2], failAt |-> fs, fail |-> fr] :
             r \in Ramps, fs \in FailSets, fr \in FailResps }

\* a frame read earlier: every pixel at raw 32767
OldFrame == [i \in Pixels |-> 32767 * 20]

\* the Wire calls of loop iterations lo .. hi, in order
RECURSIVE Flat(_, _, _)
Flat(f, lo, hi) ==
    IF lo > hi THEN << >>
    ELSE IF lo = hi THEN f[lo]
    ELSE Flat(f, lo, (lo + hi) \div 2) \o Flat(f, (lo + hi) \div 2 + 1, hi)

\* mutant of readTempC_run: the loop stops at the first failed read
readTempC_run_abort(Tram, script) ==
    LET rd == [i \in Pixels |-> readAddr_signed(pix_addr(i), Answer(script, i))]
        bad == {i \in Pixels : Answer(script, i).status # 0 \/ Answer(script, i).avail < 2}
        stop == IF bad = {} THEN NUM_PIXELS
                ELSE CHOOSE i \in bad : \A j \in bad : i <= j
    IN  [Tram |-> [i \in DOMAIN Tram |->
                     IF i < stop THEN rd[i].ret * 20 ELSE Tram[i]],
         ops |-> Flat([i \in Pixels |-> rd[i].ops], 0, stop - 1)]

\* Tram[i] = readAddr_signed(pix_addr(i)) / 50.0f, in 1/1000 degree
readTempC_run(Tram, script) ==
    LET rd == [i \in Pixels |-> readAddr_signed(pix_addr(i), Answer(script, i))]
    IN  [Tram |-> [i \in DOMAIN Tram |->
                     IF i < NUM_PIXELS THEN rd[i].ret * 20 ELSE Tram[i]],
         ops |-> Flat([i \in Pixels |-> rd[i].ops], 0, NUM_PIXELS - 1)]

\* every transaction of readTempC is an address phase without stop: the
\* sensor stores nothing
readTempC ==
    /\ call.op = "none"
    /\ LET run == readTempC_run(T_o, call.arg)
       IN  /\ call' = [op |-> "readTempC", arg |-> call.arg]
           /\ ret' = FALSE
           /\ log' = run.ops
           /\ T_o' = run.Tram
    /\ UNCHANGED <<lastProgress, eeprom, counter, faithful, observing, hist,
                   wraps, polledWraps, tally, frameBuffer, polled, pc, broken>>

InitFrame ==
    /\ call \in [op : {"none"}, arg : FrameScripts]
    /\ T_o \in {ZeroFrame, OldFrame}
    /\ lastProgress = 0
    /\ ret = FALSE
    /\ log = << >>
    /\ hist = << >>
    /\ wraps = 0
    /\ polledWraps = 0
    /\ tally = [frames |-> 0, trues |-> 0]
    /\ frameBuffer = [top |-> -1, sent |-> 0, values |-> 0]
    /\ polled = << FALSE >>
    /\ pc = "api"
    /\ broken = FALSE
    /\ eeprom = 4
    /\ counter = 0
    /\ faithful = FALSE
    /\ observing = FALSE

(***************************************************************************)
(* Printing a frame.  printFrame is public: its argument is any array of   *)
(* NUM_PIXELS floats of the caller.  The array is drawn in the initial     *)
(* state: element 0 and the other elements take values of PrintValues,     *)
(* in 1/1000 degree.                                                       *)
(***************************************************************************)
Abs(m) == IF m < 0 THEN -m ELSE m

Min(a, b) == IF a < b THEN a ELSE b

Max(a, b) == IF a > b THEN a ELSE b

RECURSIVE Digits(_)
Digits(n) == IF n < 10 THEN 1 ELSE 1 + Digits(n \div 10)

\* mutant of RenderLen: two decimals are printed
RenderLen_2dp(m) ==
    1 + (IF m < 0 THEN 1 ELSE 0) + Digits(((Abs(m) + 5) \div 10) \div 100) + 3

\* the number of characters of ",%.1f": the comma, the sign, the integer
\* digits of the value rounded to one decimal, the point and the decimal
RenderLen(m) ==
    1 + (IF m < 0 THEN 1 ELSE 0) + Digits(((Abs(m) + 50) \div 100) \div 10) + 2

\* one iteration of the loop: snprintf stores at most size - 1 characters
\* and a NUL from offset index on and returns the full length
printFrame_step(Tdat, i, st) ==
    LET size == FRAME_BUFFER_SIZE - st.index
        written == RenderLen(Tdat[i])
        stored == st.index + Min(written, size - 1)
    IN  IF written <= 0 THEN [st EXCEPT !.done = TRUE]
        ELSE [index |-> st.index + written,
              values |-> st.values + 1,
              top |-> Max(st.top, stored),
              done |-> st.index + written >= FRAME_BUFFER_SIZE - SAFETY_MARGIN]

\* iterations lo .. hi of the loop, in order, from the state st
RECURSIVE printFrame_loop(_, _, _, _)
printFrame_loop(Tdat, lo, hi, st) ==
    IF lo > hi \/ st.done THEN st
    ELSE IF lo = hi THEN printFrame_step(Tdat, lo, st)
    ELSE printFrame_loop(Tdat, (lo + hi) \div 2 + 1, hi,
                         printFrame_loop(Tdat, lo, (lo + hi) \div 2, st))

\* after the loop: '\n' at index, NUL at index + 1, index + 1 bytes sent
printFrame_run(Tdat) ==
    LET st == printFrame_loop(Tdat, 0, NUM_PIXELS - 1,
                              [index |-> 0, values |-> 0, top |-> -1, done |-> FALSE])
    IN  [top |-> Max(st.top, st.index + 1), sent |-> st.index + 1,
         values |-> st.values]

\* a store past the end of frameBuffer lands in whatever the linker placed
\* after the object; the static lastProgress is such a neighbour, and the
\* bytes stored are '\n' (10) and NUL
printFrame ==
    LET run == printFrame_run(T_o)
    IN  /\ call' = [op |-> "printFrame", arg |-> 0]
        /\ ret' = FALSE
        /\ log' = << >>
        /\ frameBuffer' = run
        /\ lastProgress' \in (IF run.top >= FRAME_BUFFER_SIZE
                              THEN {lastProgress, 0, 10}
                              ELSE {lastProgress})
        /\ UNCHANGED <<eeprom, counter, faithful, observing, hist,
                       wraps, polledWraps, tally, T_o, polled, pc, broken>>

PrintValues ==
    {0, -20, 5000, 10000, 33570, -655360, 655340, 100000000, 1000000000, -1000000000}

PrintFrames ==
    { [i \in Pixels |-> IF i = 0 THEN a ELSE b] : a \in PrintValues, b \in PrintValues }

InitPrint ==
    /\ InitCommon
    /\ T_o \in PrintFrames
    /\ eeprom = 4
    /\ counter = 0
    /\ faithful = FALSE
    /\ observing = FALSE

NextPrint == printFrame

SpecPrint == InitPrint /\ [][NextPrint]_vars

\* a frame is read and then printed
NextFrame == readTempC \/ printFrame

SpecFrame == InitFrame /\ [][NextFrame]_vars

(***************************************************************************)
(* Several driver objects in one process.  The constructor's body is       *)
(* empty, and lastProgress is a static local of isNewDataAvailable: there  *)
(* is one lastProgress in the process, initialised once.                   *)
(***************************************************************************)
construct ==
    /\ Len(polled) < MaxInstances
    /\ polled' = Append(polled, FALSE)
    /\ call' = [op |-> "construct", arg |-> Len(polled) + 1]
    /\ log' = << >>
    /\ UNCHANGED <<lastProgress, eeprom, counter, faithful, ret, observing, hist,
                   wraps, polledWraps, tally, T_o, frameBuffer, pc, broken>>

InitInstances ==
    /\ InitCommon
    /\ T_o = ZeroFrame
    /\ eeprom = 4
    /\ counter = 0
    /\ faithful = FALSE
    /\ observing = FALSE

NextInstances == construct \/ isNewDataAvailable

SpecInstances == InitInstances /\ [][NextInstances]_vars

(***************************************************************************)
(* setRefreshRate against a faithful device: every transaction succeeds,   *)
(* reads return the stored word, acknowledged writes are stored.           *)
(***************************************************************************)
InitDevice ==
    /\ InitCommon
    /\ T_o = ZeroFrame
    /\ eeprom \in ConfigWords
    /\ counter = 0
    /\ faithful = TRUE
    /\ observing = FALSE

NextDevice == setRefreshRate

SpecDevice == InitDevice /\ [][NextDevice]_vars

(***************************************************************************)
(* The example sketch: setup() once, then loop() for ever.  pc is the      *)
(* call the sketch makes next.  The transport answers as a mock does       *)
(* until it breaks; from then on every transaction fails.                  *)
(***************************************************************************)
SketchResps(words) ==
    IF broken THEN {NackResp(1), ShortResp(1)}
    ELSE {OkResp(w) : w \in words} \cup {NackResp(1)}

SketchStatuses == IF broken THEN {1} ELSE 0..MaxStatus

SketchProgress == {5, 40}

SketchScripts ==
    IF broken
    THEN {[start |-> 250, step |-> 0, failAt |-> Pixels, fail |-> NackResp(1)]}
    ELSE {[start |-> 250, step |-> 0, failAt |-> {}, fail |-> NackResp(1)],
          [start |-> 32768, step |-> 0, failAt |-> {383}, fail |-> NackResp(1)]}

\* the variables no call of the sketch touches
sensorVars == <<counter, faithful, observing, hist, wraps, polledWraps, tally>>

\* setup(): myIRcam.setRefreshRate(REFRESH_RATE), either branch of the if
setup_setRefreshRate ==
    /\ pc = "setup"
    /\ \E r1 \in SketchResps({eeprom}) :
       \E wstatus \in SketchStatuses :
        LET part == setRefreshRate_write(REFRESH_RATE, r1, wstatus)
            mid == DeviceStore(eeprom, part.ops)
        IN  \E r2 \in IF part.done THEN Unasked ELSE SketchResps({mid}) :
                LET run == setRefreshRate_run(REFRESH_RATE, r1, wstatus, r2)
                IN  /\ call' = [op |-> "setRefreshRate", arg |-> REFRESH_RATE,
                                at |-> "setup"]
                    /\ ret' = run.ret
                    /\ log' = run.ops
                    /\ eeprom' = DeviceStore(eeprom, run.ops)
    /\ pc' = "setupTa"
    /\ UNCHANGED <<lastProgress, T_o, frameBuffer, polled, broken, sensorVars>>

\* setup(): float Ta = myIRcam.readTa()
setup_readTa ==
    /\ pc = "setupTa"
    /\ \E resp \in SketchResps({3357}) :
        LET run == readTa_run(resp)
        IN  /\ call' = [op |-> "readTa", arg |-> 0, resp |-> resp, at |-> "setup"]
            /\ ret' = run.ret
            /\ log' = run.ops
    /\ pc' = "wait"
    /\ UNCHANGED <<lastProgress, eeprom, T_o, frameBuffer, polled, broken, sensorVars>>

\* mutant of loop_isNewDataAvailable: the result of the poll is not tested
loop_isNewDataAvailable_once ==
    /\ pc = "wait"
    /\ \E resp \in SketchResps(SketchProgress) :
        LET run == isNewDataAvailable_run(lastProgress, resp)
        IN  /\ call' = [op |-> "isNewDataAvailable", arg |-> 0,
                        self |-> 1, first |-> ~polled[1], at |-> "loop"]
            /\ ret' = run.ret
            /\ log' = run.ops
            /\ lastProgress' = run.lastProgress
            /\ pc' = "readTa"
    /\ polled' = [polled EXCEPT ![1] = TRUE]
    /\ UNCHANGED <<eeprom, T_o, frameBuffer, broken, sensorVars>>

\* loop(): while (!myIRcam.isNewDataAvailable()) delay(1);
loop_isNewDataAvailable ==
    /\ pc = "wait"
    /\ \E resp \in SketchResps(SketchProgress) :
        LET run == isNewDataAvailable_run(lastProgress, resp)
        IN  /\ call' = [op |-> "isNewDataAvailable", arg |-> 0,
                        self |-> 1, first |-> ~polled[1], at |-> "loop"]
            /\ ret' = run.ret
            /\ log' = run.ops
            /\ lastProgress' = run.lastProgress
            /\ pc' = IF run.ret THEN "readTa" ELSE "wait"
    /\ polled' = [polled EXCEPT ![1] = TRUE]
    /\ UNCHANGED <<eeprom, T_o, frameBuffer, broken, sensorVars>>

\* loop(): float Ta = myIRcam.readTa()
loop_readTa ==
    /\ pc = "readTa"
    /\ \E resp \in SketchResps({3357}) :
        LET run == readTa_run(resp)
        IN  /\ call' = [op |-> "readTa", arg |-> 0, resp |-> resp, at |-> "loop"]
            /\ ret' = run.ret
            /\ log' = run.ops
    /\ pc' = "readTempC"
    /\ UNCHANGED <<lastProgress, eeprom, T_o, frameBuffer, polled, broken, sensorVars>>

\* loop(): myIRcam.readTempC(T_o)
loop_readTempC ==
    /\ pc = "readTempC"
    /\ \E script \in SketchScripts :
        LET run == readTempC_run(T_o, script)
        IN  /\ call' = [op |-> "readTempC", arg |-> script, at |-> "loop"]
            /\ ret' = FALSE
            /\ log' = run.ops
            /\ T_o' = run.Tram
    /\ pc' = "printFrame"
    /\ UNCHANGED <<lastProgress, eeprom, frameBuffer, polled, broken, sensorVars>>

\* loop(): myIRcam.printFrame(T_o)
loop_printFrame ==
    /\ pc = "printFrame"
    /\ LET run == printFrame_run(T_o)
       IN  /\ call' = [op |-> "printFrame", arg |-> 0, at |-> "loop"]
           /\ ret' = FALSE
           /\ log' = << >>
           /\ frameBuffer' = run
           /\ lastProgress' \in (IF run.top >= FRAME_BUFFER_SIZE
                                 THEN {lastProgress, 0, 10}
                                 ELSE {lastProgress})
    /\ pc' = "wait"
    /\ UNCHANGED <<eeprom, T_o, polled, broken, sensorVars>>

\* the bus stops working (a wire comes off, the sensor loses power)
transportBreaks ==
    /\ ~broken
    /\ broken' = TRUE
    /\ UNCHANGED <<lastProgress, eeprom, call, ret, log, T_o, frameBuffer,
                   polled, pc, sensorVars>>

InitSketch ==
    /\ lastProgress = 0
    /\ call = [op |-> "none", arg |-> 0]
    /\ ret = FALSE
    /\ log = << >>
    /\ hist = << >>
    /\ wraps = 0
    /\ polledWraps = 0
    /\ tally = [frames |-> 0, trues |-> 0]
    /\ frameBuffer = [top |-> -1, sent |-> 0, values |-> 0]
    /\ polled = << FALSE >>
    /\ pc = "setup"
    /\ broken = FALSE
    /\ T_o = ZeroFrame
    /\ eeprom = 5
    /\ counter = 0
    /\ faithful = FALSE
    /\ observing = FALSE

NextSketch ==
    \/ setup_setRefreshRate
    \/ setup_readTa
    \/ loop_isNewDataAvailable
    \/ loop_readTa
    \/ loop_readTempC
    \/ loop_printFrame
    \/ transportBreaks

SpecSketch == InitSketch /\ [][NextSketch]_vars

Init == InitRate

Next == setRefreshRate \/ isNewDataAvailable

Spec == Init /\ [][Next]_vars

(***************************************************************************)
(* Properties of setRefreshRate (SpecRate).                                *)
(***************************************************************************)
IsRateCall == call.op = "setRefreshRate"

\* the k-th bus transaction of the last call is a completed read of the configuration word
ReadGood(t, k) ==
    /\ Len(t) >= k
    /\ Kind(t[k]) = "read"
    /\ TxnAddr(t[k]) = CONFIG_REG
    /\ TxnValue(t[k]) # FAIL_WORD

\* the k-th bus transaction of the last call is an EEPROM write the transport reported as sent
WriteGood(t, k) ==
    /\ Len(t) >= k
    /\ Kind(t[k]) = "write"
    /\ t[k].status = 0

WrittenWord(t, k) == t[k].bytes[5] * 256 + t[k].bytes[6]

\* C1: setRefreshRate returns success if and only if the rate code is one of 2,3,4,5,
\* the first read of 0x11F0 gives a value other than 0xFFFF, the EEPROM write
\* transaction reports transport success, the verification read of 0x11F0 gives a
\* value other than 0xFFFF, and the low 3 bits of the re-read word equal the rate code.
C1_SuccessIff ==
    IsRateCall =>
        LET t == Txns(log)
        IN  ret = ( /\ call.arg \in {2, 3, 4, 5}
                    /\ ReadGood(t, 1)
                    /\ WriteGood(t, 2)
                    /\ ReadGood(t, 3)
                    /\ TxnValue(t[3]) % 8 = call.arg )

C1_Witness ==
    /\ IsRateCall
    /\ ret = TRUE
    /\ call.arg = 3
    /\ TxnValue(Txns(log)[3]) = 43979

\* C2: for every first-read word w other than 0xFFFF and every valid rate code, the
\* single word setRefreshRate sends in its EEPROM write to 0x11F0 is (w AND 0xFFF8) OR
\* rateCode: bits 3..15 are those of w and bits 0..2 are the rate code.
C2_WrittenWord ==
    (IsRateCall /\ ReadGood(Txns(log), 1)) =>
        LET t == Txns(log)
            w == TxnValue(t[1])
        IN  /\ Len(t) >= 2
            /\ Kind(t[2]) = "write"
            /\ TxnAddr(t[2]) = CONFIG_REG
            /\ WrittenWord(t, 2) = (w - (w % 8)) + call.arg
            /\ WrittenWord(t, 2) \div 8 = w \div 8
            /\ WrittenWord(t, 2) % 8 = call.arg
            /\ Cardinality({k \in 1..Len(t) : Kind(t[k]) = "write"}) = 1

\* first read 0b101, rate code 4, low bits 0b100 written and read back: the call succeeds
C2_Witness ==
    /\ IsRateCall
    /\ call.arg = 4
    /\ Len(Txns(log)) = 3
    /\ TxnValue(Txns(log)[1]) = 5
    /\ WrittenWord(Txns(log), 2) = 4
    /\ TxnValue(Txns(log)[3]) = 4
    /\ ret = TRUE

\* C3: for every rate code outside 2..5 setRefreshRate returns failure, makes no
\* transport call at all, and leaves the driver's and the sensor's state as they were.
C3_InvalidRateNoBus ==
    [][ (call'.op = "setRefreshRate" /\ call'.arg \notin {2, 3, 4, 5}) =>
            /\ ret' = FALSE
            /\ log' = << >>
            /\ eeprom' = eeprom
            /\ lastProgress' = lastProgress
            /\ counter' = counter ]_vars

C3_Witness ==
    /\ IsRateCall
    /\ call.arg = 6
    /\ ret = FALSE
    /\ log = << >>
    /\ eeprom = 43979

\* C4: when the first read and the write transaction succeed and the verification
\* read gives the sentinel 0xFFFF, setRefreshRate returns failure, makes no bus
\* operation after the failed re-read, and the sensor keeps the newly written word.
C4_VerifyFailKeepsWrite ==
    LET t == Txns(log)
    IN  ( /\ IsRateCall
          /\ ReadGood(t, 1)
          /\ WriteGood(t, 2)
          /\ Len(t) >= 3
          /\ TxnValue(t[3]) = FAIL_WORD ) =>
            /\ ret = FALSE
            /\ Len(t) = 3
            /\ t[3].delay = 0
            /\ Len(t[3].requests) <= 1
            /\ eeprom = WrittenWord(t, 2)

C4_Witness ==
    LET t == Txns(log)
    IN  /\ IsRateCall
        /\ ReadGood(t, 1)
        /\ TxnValue(t[1]) = 5
        /\ WriteGood(t, 2)
        /\ Len(t) = 3
        /\ t[3].status # 0
        /\ ret = FALSE
        /\ call.arg = 2
        /\ eeprom = 2

\* what a call of setRefreshRate did on the bus, step by step
C5_Steps ==
    IsRateCall =>
        LET t == Txns(log)
            n == Len(t)
        IN  /\ Kinds(log) = SubSeq(<<"read", "write", "read">>, 1, n)
            /\ \A k \in 1..n : TxnAddr(t[k]) = CONFIG_REG /\ t[k].begun = 1
            /\ \A k \in 1..n : Len(t[k].requests) <= 1
            /\ (n = 0) = (call.arg \notin {2, 3, 4, 5})
            /\ (n = 1) => TxnValue(t[1]) = FAIL_WORD
            /\ (n = 2) => (ReadGood(t, 1) /\ t[2].status # 0)
            /\ (n = 3) => (ReadGood(t, 1) /\ t[2].status = 0)

\* C5: nothing is retried inside setRefreshRate: its bus operations are a prefix of
\* [read 0x11F0, write 0x11F0, read 0x11F0] that ends at the first failing step; at
\* most one write transaction is issued, and none when the first read gives 0xFFFF,
\* so that the sensor's configuration word is then unchanged.
C5_NoRetryPrefix ==
    /\ []C5_Steps
    /\ [][ (call'.op = "setRefreshRate"
            /\ Len(Txns(log')) >= 1
            /\ TxnValue(Txns(log')[1]) = FAIL_WORD) =>
                /\ Len(Txns(log')) = 1
                /\ eeprom' = eeprom ]_vars

C5_Witness ==
    LET t == Txns(log)
    IN  /\ IsRateCall
        /\ Kinds(log) = <<"read", "write">>
        /\ ReadGood(t, 1)
        /\ t[2].status # 0
        /\ ret = FALSE

(***************************************************************************)
(* Properties of isNewDataAvailable (SpecPoll, SpecSensor).                *)
(***************************************************************************)
IsPollCall == call.op = "isNewDataAvailable"

\* the register read of the last call failed: address phase refused, or fewer than 2 bytes
ReadFailed(t) == t.status # 0 \/ Len(t.reads) < 2

\* the reading before the k-th recorded poll; before the first one it is the baseline 0
Baseline(k) == IF k = 1 THEN 0 ELSE hist[k - 1][1]

\* C6: for any sequence of progress readings r1, r2, ... the k-th call of
\* isNewDataAvailable returns true if and only if r_k < r_(k-1), with r_0 = 0; so the
\* first call returns false for every reading and equal consecutive readings give false.
C6_WrapIffLess ==
    /\ \A k \in 1..Len(hist) : hist[k][2] = (hist[k][1] < Baseline(k))
    /\ Len(hist) >= 1 => hist[1][2] = FALSE
    /\ \A k \in 2..Len(hist) : hist[k][1] = hist[k - 1][1] => hist[k][2] = FALSE

\* the readings 10, 50, 90, 5, 40 give false, false, false, true, false
C6_Witness ==
    hist = << <<10, FALSE>>, <<50, FALSE>>, <<90, FALSE>>, <<5, TRUE>>, <<40, FALSE>> >>

\* C7: after every call of isNewDataAvailable, whatever it returned, the stored baseline
\* equals the value that call's register read produced; after a failed read it is 0xFFFF.
C7_BaselineIsReading ==
    IsPollCall =>
        LET t == Txns(log)[1]
        IN  /\ lastProgress = TxnValue(t)
            /\ ReadFailed(t) => lastProgress = 65535
            /\ ~ReadFailed(t) => lastProgress = t.reads[1] * 256 + t.reads[2]

C7_Witness ==
    /\ IsPollCall
    /\ Len(hist) = 3
    /\ hist[2] = <<50, FALSE>>
    /\ Txns(log)[1].status # 0
    /\ lastProgress = 65535

\* C8 as amended: a call of isNewDataAvailable whose register read fails returns false
\* ("no wrap") whatever the previously stored value is.
C8_FailedReadNoWrap ==
    (IsPollCall /\ ReadFailed(Txns(log)[1])) => ret = FALSE

C8_Witness ==
    /\ IsPollCall
    /\ Len(hist) = 2
    /\ hist[1] = <<90, FALSE>>
    /\ ReadFailed(Txns(log)[1])
    /\ Len(Txns(log)[1].requests) = 1
    /\ ret = FALSE

\* every value the 16-bit stored baseline can hold, the present one included
StoredValues == 0..65535 \cup {lastProgress}

\* C8 as stated: a call whose register read fails returns false for some stored prior
\* values and returns true for some stored prior values.
C8_Original ==
    /\ \E last \in StoredValues : isNewDataAvailable_run(last, NackResp(1)).ret = FALSE
    /\ \E last \in StoredValues :
          \/ isNewDataAvailable_run(last, NackResp(1)).ret = TRUE
          \/ isNewDataAvailable_run(last, ShortResp(0)).ret = TRUE
          \/ isNewDataAvailable_run(last, ShortResp(1)).ret = TRUE

\* the bus traffic of a call of isNewDataAvailable
C9_Traffic ==
    IsPollCall =>
        LET t == Txns(log)
        IN  /\ Len(t) = 1
            /\ Kind(t[1]) = "read"
            /\ TxnAddr(t[1]) = PROGRESS_REG
            /\ t[1].dev = MLX90642_ADDR
            /\ t[1].begun = 1
            /\ Len(t[1].requests) <= 1
            /\ \A i \in 1..Len(t[1].requests) :
                  t[1].requests[i] = WRequest(MLX90642_ADDR, 2)
            /\ Len(Named(log, "beginTransmission")) = 1
            /\ Len(Named(log, "endTransmission")) = 1
            /\ Len(Named(log, "delay")) = 0

\* C9: each call of isNewDataAvailable performs exactly one register read, of the
\* progress register 0x3C10 (one address phase and at most one 2-byte read request),
\* issues no write transaction, and changes no state other than its stored baseline.
C9_OneReadOnly ==
    /\ []C9_Traffic
    /\ [][ call'.op = "isNewDataAvailable" =>
            (eeprom' = eeprom /\ counter' = counter) ]_vars

C9_Witness ==
    /\ IsPollCall
    /\ Len(Txns(log)[1].requests) = 1
    /\ Len(Txns(log)[1].reads) = 2
    /\ lastProgress = 40
    /\ eeprom = 43979

\* C10: with no read failures and a progress counter that only increases within a frame
\* and drops only when a new frame begins, isNewDataAvailable returns true only if at
\* least one frame boundary occurred between the previous call and this one.
C10_TrueOnlyAfterWrap ==
    (IsPollCall /\ ret = TRUE) => polledWraps >= 1

C10_Witness ==
    /\ IsPollCall
    /\ ret = TRUE
    /\ polledWraps = 1
    /\ lastProgress = 1

\* C11: frame boundaries are under-counted when polling is slow: a call that follows
\* two or more counter wraps reports at most one new frame, and none at all when the
\* reading after the wraps is greater than or equal to the stored baseline; so the
\* number of true results of a run is at most the number of frames the sensor began.
C11_UnderCount ==
    /\ [](tally.trues <= tally.frames)
    /\ [][ call'.op = "isNewDataAvailable" =>
            /\ tally'.trues - tally.trues = (IF ret' THEN 1 ELSE 0)
            /\ tally'.frames = tally.frames
            /\ (wraps >= 2 /\ counter >= lastProgress) =>
                   (ret' = FALSE /\ tally'.trues = tally.trues) ]_vars

\* two frames began since the previous poll, the poll reported none of them, and the
\* run has fewer true results than frames
C11_Witness ==
    /\ IsPollCall
    /\ polledWraps >= 2
    /\ ret = FALSE
    /\ tally.frames = 2
    /\ tally.trues = 0

(***************************************************************************)
(* Properties of the register access layer (SpecAccess).  call.resp is     *)
(* what the transport answered to the call.                                *)
(***************************************************************************)
ReadFailure(resp) == resp.status # 0 \/ resp.avail < 2

\* C12: on the success path readAddr_unsigned begins a transaction to
\* device 0x66, queues the address high byte and then the low byte, ends
\* the transaction without a stop, requests 2 bytes, and returns
\* hi * 256 + lo of the two bytes it read, in the order they came.
C12_ReadSequence ==
    (call.op = "readAddr_unsigned" /\ ~ReadFailure(call.resp)) =>
        /\ Len(log) = 8
        /\ SubSeq(log, 1, 5) =
              << [f |-> "beginTransmission", a |-> 102, r |-> 0],
                 [f |-> "write", a |-> call.arg \div 256, r |-> 0],
                 [f |-> "write", a |-> call.arg % 256, r |-> 0],
                 [f |-> "endTransmission", a |-> 0, r |-> 0],
                 [f |-> "requestFrom", a |-> 102, r |-> 2] >>
        /\ log[6].f = "available"
        /\ log[7] = [f |-> "read", a |-> 0, r |-> call.resp.hi]
        /\ log[8] = [f |-> "read", a |-> 0, r |-> call.resp.lo]
        /\ ret = call.resp.hi * 256 + call.resp.lo

C12_Witness ==
    /\ call.op = "readAddr_unsigned"
    /\ call.arg = 65280
    /\ ~ReadFailure(call.resp)
    /\ call.resp.hi = 13
    /\ call.resp.lo = 29
    /\ ret = 3357

\* C13: readAddr_unsigned returns 0xFFFF when the address phase reports
\* non-success or fewer than 2 bytes are available; after a failed address
\* phase it makes no read request and reads no byte, and with fewer than 2
\* bytes available it reads none of them.
C13_FailureSentinel ==
    call.op = "readAddr_unsigned" =>
        /\ ReadFailure(call.resp) => (ret = 65535 /\ Named(log, "read") = << >>)
        /\ call.resp.status # 0 =>
              /\ Named(log, "requestFrom") = << >>
              /\ Named(log, "available") = << >>
              /\ log[Len(log)].f = "endTransmission"
        /\ (call.resp.status = 0 /\ call.resp.avail < 2) =>
              /\ Len(Named(log, "requestFrom")) = 1
              /\ log[Len(log)] = [f |-> "available", a |-> 0, r |-> call.resp.avail]

C13_Witness ==
    /\ call.op = "readAddr_unsigned"
    /\ call.resp.status = 0
    /\ call.resp.avail = 1
    /\ ret = 65535
    /\ Len(log) = 6

\* C14: readAddr_signed makes the Wire calls readAddr_unsigned makes for the
\* same address and the same transport answers, and returns the two's
\* complement reading of its value: u below 32768, u - 65536 otherwise;
\* a transport failure gives -1.
C14_SignedMatchesUnsigned ==
    call.op = "readAddr_signed" =>
        LET u == readAddr_unsigned(call.arg, call.resp)
        IN  /\ log = u.ops
            /\ ret = (IF u.ret < 32768 THEN u.ret ELSE u.ret - 65536)
            /\ ReadFailure(call.resp) => ret = -1

C14_Witness ==
    /\ call.op = "readAddr_signed"
    /\ ~ReadFailure(call.resp)
    /\ call.resp.hi = 128
    /\ call.resp.lo = 0
    /\ ret = -32768

\* C15: writeEEPROM makes one transaction to device 0x66 whose bytes are
\* 0x3A, 0x2E, address high, address low, value high, value low, ended with
\* a stop; it returns false exactly when the transport reports non-success
\* for that transaction, and it requests and reads nothing.
C15_WriteTransaction ==
    call.op = "writeEEPROM" =>
        LET t == Txns(log)
        IN  /\ Len(t) = 1
            /\ Len(Named(log, "beginTransmission")) = 1
            /\ Len(Named(log, "endTransmission")) = 1
            /\ t[1].dev = 102
            /\ t[1].begun = 1
            /\ t[1].bytes = << 58, 46,
                               call.arg[1] \div 256, call.arg[1] % 256,
                               call.arg[2] \div 256, call.arg[2] % 256 >>
            /\ t[1].stop = 1
            /\ (ret = FALSE) <=> (t[1].status # 0)
            /\ t[1].status = call.resp
            /\ Named(log, "requestFrom") = << >>
            /\ Named(log, "read") = << >>

C15_Witness ==
    /\ call.op = "writeEEPROM"
    /\ call.arg = <<CONFIG_REG, 43979>>
    /\ call.resp = 1
    /\ ret = FALSE
    /\ eeprom # 43979

\* C19: readTa makes one register read, of address 0x3A2C, takes the word
\* as two's complement and returns it divided by 100: 3357 gives 33.57, a
\* word with the top bit set gives a negative temperature, and a transport
\* failure gives -0.01.  Temperatures are in 1/1000 degree.
C19_SensorTemperature ==
    call.op = "readTa" =>
        LET t == Txns(log)
            w == TxnValue(t[1])
            raw == IF w < 32768 THEN w ELSE w - 65536
        IN  /\ Len(t) = 1
            /\ Len(Named(log, "beginTransmission")) = 1
            /\ Len(Named(log, "requestFrom")) <= 1
            /\ t[1].dev = 102
            /\ Kind(t[1]) = "read"
            /\ TxnAddr(t[1]) = 14892
            /\ ret * 100 = raw * 1000
            /\ w = 3357 => ret = 33570
            /\ w >= 32768 => ret < 0
            /\ ReadFailure(call.resp) => ret = -10

C19_Witness ==
    /\ call.op = "readTa"
    /\ ~ReadFailure(call.resp)
    /\ ret = 33570

(***************************************************************************)
(* Properties of pix_addr (SpecPixel).                                     *)
(***************************************************************************)
\* C16: for a valid index i (0 <= i < 768) pix_addr(i) is 0x342C + 2 * i,
\* is even and is not reduced modulo 2^16; the addresses run from 0x342C
\* (i = 0) to 0x3A2A (i = 767), and no other valid index has the same
\* address.
C16_PixelAddress ==
    (call.op = "pix_addr" /\ call.arg < 768) =>
        /\ ret = 13356 + 2 * call.arg
        /\ ret % 2 = 0
        /\ ret >= 13356
        /\ ret <= 14890
        /\ ret < 65536
        /\ call.arg = 0 => ret = 13356
        /\ call.arg = 767 => ret = 14890
        /\ \A j \in 0..767 : j # call.arg => pix_addr(j) # ret

C16_Witness ==
    /\ call.op = "pix_addr"
    /\ call.arg = 767
    /\ ret = 14890

\* C17: for an index from 768 to 65535 pix_addr returns 0 and makes no
\* Wire call, and no valid index below 768 gives 0.
C17_InvalidIndex ==
    call.op = "pix_addr" =>
        /\ log = << >>
        /\ call.arg >= 768 => ret = 0
        /\ call.arg < 768 => ret # 0

C17_Witness ==
    /\ call.op = "pix_addr"
    /\ call.arg = 768
    /\ ret = 0
    /\ log = << >>

(***************************************************************************)
(* Properties of readTempC (SpecFrame).  The log of one call holds         *)
(* thousands of Wire calls: it is cut at each beginTransmission.           *)
(***************************************************************************)
BeginsAt(ops) ==
    SelectSeq([k \in 1..Len(ops) |-> k], LAMBDA k : ops[k].f = "beginTransmission")

BusTxns(ops) ==
    LET b == BeginsAt(ops)
    IN  [j \in 1..Len(b) |->
            Txns(SubSeq(ops, b[j], IF j < Len(b) THEN b[j + 1] - 1 ELSE Len(ops)))[1]]

\* C18: readTempC makes 768 signed register reads, one per pixel, at
\* 0x342C + 2 * i for i = 0..767 in this order, and stores raw_i / 50 in
\* element i (raw 250 everywhere gives 5.0 everywhere).  A failed read is
\* stored as -0.02 in its own element only; it is not retried and the
\* remaining pixels are still read, so every element is overwritten.
\* Temperatures are in 1/1000 degree.
C18_FrameRead ==
    call.op = "readTempC" =>
        \A t \in {BusTxns(log)} :
            /\ Len(t) = 768
            /\ DOMAIN T_o = 0..767
            /\ \A i \in 0..767 :
                  LET w == TxnValue(t[i + 1])
                      raw == IF w < 32768 THEN w ELSE w - 65536
                  IN  /\ t[i + 1].dev = 102
                      /\ t[i + 1].begun = 1
                      /\ Kind(t[i + 1]) = "read"
                      /\ TxnAddr(t[i + 1]) = 13356 + 2 * i
                      /\ Len(t[i + 1].requests) <= 1
                      /\ ReadFailed(t[i + 1]) <=> ReadFailure(Answer(call.arg, i))
                      /\ ~ReadFailed(t[i + 1]) =>
                            w = (call.arg.start + call.arg.step * i) % 65536
                      /\ T_o[i] * 50 = raw * 1000
                      /\ ReadFailed(t[i + 1]) => T_o[i] = -20
            /\ (call.arg.start = 250 /\ call.arg.step = 0 /\ call.arg.failAt = {}) =>
                  \A i \in 0..767 : T_o[i] = 5000

C18_Witness ==
    /\ call.op = "readTempC"
    /\ call.arg.start = 250
    /\ call.arg.step = 0
    /\ call.arg.failAt = {383}
    /\ T_o[382] = 5000
    /\ T_o[383] = -20
    /\ T_o[384] = 5000
    /\ T_o[767] = 5000

(***************************************************************************)
(* Properties of printFrame (SpecPrint).                                   *)
(***************************************************************************)
\* C20: printFrame never stores outside the 6000-byte frameBuffer, whatever
\* the 768 values: every store, the final newline and the terminating NUL
\* included, is at an offset below the capacity.
C20_NoOverflow ==
    call.op = "printFrame" => frameBuffer.top < 6000

(***************************************************************************)
(* Timing of setRefreshRate (SpecRate).  Time passes only in delay calls.  *)
(***************************************************************************)
\* the position in the log of the endTransmission that ends with a stop
WriteEnd(ops) ==
    IF \E k \in 1..Len(ops) : ops[k].f = "endTransmission" /\ ops[k].a = 1
    THEN CHOOSE k \in 1..Len(ops) : ops[k].f = "endTransmission" /\ ops[k].a = 1
    ELSE 0

\* C21: when the write transaction of setRefreshRate succeeds, the
\* verification read of 0x11F0 begins only after delays of at least 20 time
\* units since the write transaction ended, and nothing but delays lies
\* between the two; when the write transaction fails, setRefreshRate
\* returns with no delay at all.
C21_SettleBeforeVerify ==
    (IsRateCall /\ WriteEnd(log) > 0) =>
        LET e == WriteEnd(log)
            nb == IndexOf(log, "beginTransmission", e + 1)
            t == Txns(log)
        IN  /\ Len(Named(log, "endTransmission")) - Len(Named(SubSeq(log, 1, e), "endTransmission"))
                 = (IF log[e].r = 0 THEN 1 ELSE 0)
            /\ log[e].r = 0 =>
                  /\ nb <= Len(log)
                  /\ \A k \in (e + 1)..(nb - 1) : log[k].f = "delay"
                  /\ SumDelay(SubSeq(log, e + 1, nb - 1)) >= 20
                  /\ Len(t) = 3
                  /\ t[3].stop = 0
                  /\ t[3].bytes = << 17, 240 >>
            /\ log[e].r # 0 =>
                  /\ e = Len(log)
                  /\ Named(log, "delay") = << >>
                  /\ ret = FALSE

C21_Witness ==
    /\ IsRateCall
    /\ WriteEnd(log) > 0
    /\ log[WriteEnd(log)].r = 0
    /\ SumDelay(log) = 30
    /\ Len(Txns(log)) = 3
    /\ ret = TRUE

(***************************************************************************)
(* Properties of several driver objects (SpecInstances).                   *)
(***************************************************************************)
\* C22: the baseline belongs to one driver object and is 0 at construction:
\* the first isNewDataAvailable call on any newly constructed object returns
\* false, whatever calls were made before on other objects of the process.
C22_FirstCallFalse ==
    (IsPollCall /\ call.first) => ret = FALSE

(***************************************************************************)
(* A failed poll and the poll after it (SpecPoll).                         *)
(***************************************************************************)
\* C25: when the read of one isNewDataAvailable call fails and the read of
\* the call right after it succeeds with a reading below 0xFFFF, that
\* second call returns true, also when the counter did not wrap between the
\* good readings around the failure.
C25_PoisonedPoll ==
    \A k \in 2..Len(hist) :
        (hist[k - 1][1] = 65535 /\ hist[k][1] < 65535) =>
            /\ hist[k - 1][2] = FALSE
            /\ hist[k][2] = TRUE

\* the readings 10, failure, 40: the counter only rose, the third poll says true
C25_Witness ==
    hist = << <<10, FALSE>>, <<65535, FALSE>>, <<40, TRUE>> >>

(***************************************************************************)
(* Properties of setRefreshRate against a faithful device (SpecDevice).    *)
(***************************************************************************)
\* C27: against a faithful device whose configuration word is not 0xFFFF,
\* setRefreshRate(r) with r in 2..5 succeeds and leaves the stored word
\* equal to the previous word with bits 0..2 replaced by r; a second call
\* with the same r succeeds and leaves the word as it is, and it still
\* makes a write transaction.
C27_FaithfulRate ==
    /\ [](( /\ IsRateCall
            /\ call.arg \in 2..5
            /\ ret = TRUE ) =>
              /\ Kinds(log) = << "read", "write", "read" >>
              /\ WrittenWord(Txns(log), 2) = eeprom
              /\ eeprom % 8 = call.arg)
    /\ [][ ( /\ call'.op = "setRefreshRate"
             /\ call'.arg \in 2..5
             /\ eeprom # 65535 ) =>
               /\ ret' = TRUE
               /\ eeprom' = (eeprom - (eeprom % 8)) + call'.arg
               /\ eeprom' \div 8 = eeprom \div 8
               /\ (IsRateCall /\ call.arg = call'.arg) => eeprom' = eeprom ]_vars

\* the second of two calls with rate 4: the first read already gives rate 4,
\* and the word 4 is written again
C27_Witness ==
    /\ IsRateCall
    /\ call.arg = 4
    /\ ret = TRUE
    /\ eeprom = 4
    /\ TxnValue(Txns(log)[1]) = 4
    /\ Kinds(log) = << "read", "write", "read" >>
    /\ WrittenWord(Txns(log), 2) = 4

(***************************************************************************)
(* Printing a frame that readTempC produced (SpecFrame).                   *)
(***************************************************************************)
\* the characters of the renderings of elements lo .. hi
RECURSIVE RenderSum(_, _, _)
RenderSum(Tdat, lo, hi) ==
    IF lo > hi THEN 0
    ELSE IF lo = hi THEN RenderLen(Tdat[lo])
    ELSE RenderSum(Tdat, lo, (lo + hi) \div 2) + RenderSum(Tdat, (lo + hi) \div 2 + 1, hi)

\* C28: printFrame never truncates a frame produced by readTempC: every
\* value is a signed 16-bit word divided by 50 and renders in at most 7
\* characters, so the cursor after 768 values is at most 5376, below the
\* threshold 5990: all 768 values are rendered, followed by one newline.
C28_FrameNotTruncated ==
    call.op = "printFrame" =>
        /\ \A i \in 0..767 : T_o[i] >= -32768 * 20 /\ T_o[i] <= 32767 * 20
        /\ \A i \in 0..767 : RenderLen(T_o[i]) >= 4 /\ RenderLen(T_o[i]) <= 7
        /\ frameBuffer.values = 768
        /\ frameBuffer.sent - 1 = RenderSum(T_o, 0, 767)
        /\ frameBuffer.sent - 1 <= 5376
        /\ frameBuffer.sent - 1 < 5990
        /\ frameBuffer.top = frameBuffer.sent
        /\ frameBuffer.top < 6000

\* a frame read with every pixel at raw -32768 (-655.4, 7 characters each)
C28_Witness ==
    /\ call.op = "printFrame"
    /\ \A i \in 0..767 : T_o[i] = -32768 * 20
    /\ frameBuffer.values = 768
    /\ frameBuffer.sent = 5377

(***************************************************************************)
(* Properties of the example sketch (SpecSketch).                          *)
(***************************************************************************)
\* a step in which the sketch made a call (the transport breaking is none)
SketchCall == <<call, ret, log, lastProgress, pc>>' # <<call, ret, log, lastProgress, pc>>

\* C23: once every register read fails, every isNewDataAvailable call
\* returns false; there is no timeout, so the wait loop of the sketch never
\* exits and no further frame is read or printed.
C23_BrokenNeverExits ==
    [][ (broken /\ pc = "wait" /\ SketchCall) =>
            /\ call'.op = "isNewDataAvailable"
            /\ ReadFailed(Txns(log')[1])
            /\ ret' = FALSE
            /\ lastProgress' = 65535
            /\ pc' = "wait"
            /\ T_o' = T_o
            /\ frameBuffer' = frameBuffer ]_vars

\* the transport broke after a frame was printed; the sketch polls in vain
C23_Witness ==
    /\ broken
    /\ pc = "wait"
    /\ IsPollCall
    /\ ret = FALSE
    /\ lastProgress = 65535
    /\ frameBuffer.values = 768

\* C24: in loop() every frame acquisition is readTa, readTempC, printFrame
\* in this order, right after an isNewDataAvailable call that returned
\* true; setRefreshRate is called once, as the first call of setup() and
\* before the first poll, and the sketch goes on whatever it returned.
C24_SketchOrder ==
    [][ SketchCall =>
          /\ call'.op = "setRefreshRate" => (call.op = "none" /\ call'.arg = 4)
          /\ call.op = "none" => call'.op = "setRefreshRate"
          /\ call.op = "setRefreshRate" => (call'.op = "readTa" /\ call'.at = "setup")
          /\ (call'.op = "readTa" /\ call'.at = "setup") => call.op = "setRefreshRate"
          /\ (call.op = "readTa" /\ call.at = "setup") => call'.op = "isNewDataAvailable"
          /\ (call'.op = "readTa" /\ call'.at = "loop") =>
                (call.op = "isNewDataAvailable" /\ ret = TRUE)
          /\ (call.op = "isNewDataAvailable" /\ ret = TRUE) =>
                (call'.op = "readTa" /\ call'.at = "loop")
          /\ (call.op = "isNewDataAvailable" /\ ret = FALSE) =>
                call'.op = "isNewDataAvailable"
          /\ call'.op = "readTempC" => (call.op = "readTa" /\ call.at = "loop")
          /\ (call.op = "readTa" /\ call.at = "loop") => call'.op = "readTempC"
          /\ call'.op = "printFrame" => call.op = "readTempC"
          /\ call.op = "readTempC" => call'.op = "printFrame"
          /\ call.op = "printFrame" => call'.op = "isNewDataAvailable" ]_vars

\* a frame was read and printed although setRefreshRate wrote nothing
C24_Witness ==
    /\ call.op = "printFrame"
    /\ eeprom = 5
    /\ frameBuffer.values = 768
    /\ \A i \in 0..767 : T_o[i] = 5000

====
